---- MODULE Spec2Model ----
(***************************************************************************)
(* Sector analyzer (analyze_sectors.py) and LINE notifier (notify_line.py).*)
(*                                                                         *)
(* Prices are integer ticks.  Every float the program computes from them   *)
(* is kept as an exact fraction [n, d] with d > 0; on integer ticks of     *)
(* this size the IEEE comparisons the code makes (==, >, <, >=, <=) agree  *)
(* with the comparisons of the exact fractions.                            *)
(* Japanese string literals of the source are written as ASCII glosses.    *)
(***************************************************************************)
EXTENDS Integers, Sequences, FiniteSets, TLC

VARIABLES
    interval,     \* fetch_data: "15m" or "1d"
    data,         \* fetch_data: ticker -> its rows (dropna'd), absent tickers not in DOMAIN
    start_arg,    \* window start handed to the analyzers (a date, or None)
    end_arg,      \* window end handed to the analyzers (a date, or None)
    pc,           \* position of the analyzer run
    ticker_res,   \* what analyze_ticker returned
    sector_res,   \* what analyze_sector returned
    sc_calls,     \* the calls of generate_three_scenarios made so far: arguments and return value
    env,          \* notifier: whether the access token, the user id and the report file are there
    raw_chunks,   \* notifier: content.split(delimiter), each chunk by its stripped length
    messages_to_send, \* notifier: the queue
    send_i,       \* notifier: the send loop's position i, from 1
    pushes,       \* notifier: the pushes made to the endpoint, in order, each with its outcome
    npc,          \* notifier: position of main
    index_results,  \* main: the results of the indices analyzed
    macro_results,  \* main: the results of the macro tickers analyzed
    results,        \* main: the standard sector results, in insertion order
    theme_results,  \* main: the thematic sector results, in insertion order
    report_file,    \* main: analysis_output.txt, None until written
    raised          \* main: the exception that ended the run, "" if none

avars == <<interval, data, start_arg, end_arg, pc, ticker_res, sector_res>>
svars == <<sc_calls>>
nvars == <<env, raw_chunks, messages_to_send, send_i, pushes, npc>>
mvars == <<index_results, macro_results, results, theme_results, report_file, raised>>
vars == <<avars, svars, nvars, mvars>>

\* Python's None is the empty tuple, a present value x the 1-tuple <<x>>
None == <<>>
Some(x) == <<x>>
Val(o) == o[1]

-----------------------------------------------------------------------------
(* Bounds and input sets *)

MaxBars == 2
MaxCalls == 2
MaxHoldings == 5
MaxChunks == 3
MaxIndices == 2
MaxMacros == 1
MaxSectors == 1
MaxStocks == 2

\* price ticks of the coarse grid
Prices == {90, 100, 110}

\* price ticks of the fine grid: neighbouring ticks 0.0005 % apart
FinePrices == {199999, 200000, 200001}

\* the window bounds the analyzers are called with
WindowArgs == {None, Some(1), Some(2), Some(3)}

-----------------------------------------------------------------------------
(* Exact fractions standing for the program's floats *)

Abs(x) == IF x < 0 THEN -x ELSE x

RECURSIVE GCD(_, _)
GCD(a, b) == IF b = 0 THEN a ELSE GCD(b, a % b)

\* n / d for d > 0, in lowest terms: equal values are equal records
Frac(n, d) ==
    LET g == GCD(Abs(n), d)
    IN  [n |-> n \div g, d |-> d \div g]

FLt(a, b) == a.n * b.d < b.n * a.d
FLe(a, b) == a.n * b.d <= b.n * a.d
FEq(a, b) == a = b
FGt(a, b) == FLt(b, a)
FGe(a, b) == FLe(b, a)

\* a / b for b # 0, keeping the denominator positive
FDiv(a, b) ==
    IF b.n > 0 THEN Frac(a.n * b.d, a.d * b.n)
    ELSE Frac(-(a.n * b.d), a.d * (-b.n))

FAbs(a) == Frac(Abs(a.n), a.d)

Zero == Frac(0, 1)

-----------------------------------------------------------------------------
(* Bars *)

\* an OHLC row of the provider: Low <= Open, Close <= High
BarsOver(P) ==
    {b \in [Open : P, High : P, Low : P, Close : P] :
        /\ b.Low <= b.Open /\ b.Open <= b.High
        /\ b.Low <= b.Close /\ b.Close <= b.High}

Row(date, b) ==
    [date |-> date, Open |-> b.Open, High |-> b.High, Low |-> b.Low, Close |-> b.Close]

Max(a, b) == IF a >= b THEN a ELSE b
Min(a, b) == IF a <= b THEN a ELSE b

RECURSIVE ColMax(_, _)
ColMax(df, col) ==
    IF Len(df) = 1 THEN df[1][col]
    ELSE Max(df[Len(df)][col], ColMax(SubSeq(df, 1, Len(df) - 1), col))

RECURSIVE ColMin(_, _)
ColMin(df, col) ==
    IF Len(df) = 1 THEN df[1][col]
    ELSE Min(df[Len(df)][col], ColMin(SubSeq(df, 1, Len(df) - 1), col))

-----------------------------------------------------------------------------
(* filter_data_by_date *)

\* pd.to_datetime of a bare date is that date's midnight.  Daily rows are
\* stamped at midnight, intraday rows after it: index >= start keeps the
\* rows of the start date in both cases, index <= end keeps the rows of the
\* end date only when they are daily rows.
filter_data_by_date(df, start_date_str, end_date_str, ivl) ==
    IF df = <<>> THEN df
    ELSE
        LET AfterStart(r) == start_date_str = None \/ r.date >= Val(start_date_str)
            BeforeEnd(r) ==
                \/ end_date_str = None
                \/ r.date < Val(end_date_str)
                \/ (r.date = Val(end_date_str) /\ ivl = "1d")
            filtered == SelectSeq(df, AfterStart)
        IN  SelectSeq(filtered, BeforeEnd)

-----------------------------------------------------------------------------
(* calculate_mdd_rf *)

\* roll_max taken as the running minimum (cummin for cummax)
RECURSIVE roll_max_cummin(_, _)
roll_max_cummin(df, i) ==
    IF i = 1 THEN df[1].High ELSE Min(df[i].High, roll_max_cummin(df, i - 1))

\* df['High'].cummax() at row i
RECURSIVE roll_max(_, _)
roll_max(df, i) ==
    IF i = 1 THEN df[1].High ELSE Max(df[i].High, roll_max(df, i - 1))

\* (df['Low'] - roll_max) / roll_max at row i
daily_dd(df, i) == Frac(df[i].Low - roll_max(df, i), roll_max(df, i))

\* daily_dd.min() over rows 1..i
RECURSIVE dd_min(_, _)
dd_min(df, i) ==
    IF i = 1 THEN daily_dd(df, 1)
    ELSE LET rest == dd_min(df, i - 1)
             here == daily_dd(df, i)
         IN  IF FLt(here, rest) THEN here ELSE rest

RF_SENTINEL == Frac(9999, 100)

\* calculate_mdd_rf with the sentinel branch taken below a threshold of
\* 0.001 percent instead of at mdd == 0
calculate_mdd_rf_eps(df) ==
    IF df = <<>> THEN [MDD |-> Zero, RF |-> Zero]
    ELSE
        LET mdd == dd_min(df, Len(df))
            ret == Frac(df[Len(df)].Close - df[1].Open, df[1].Open)
            rf == IF Abs(mdd.n) * 100000 <= mdd.d
                  THEN (IF ret.n > 0 THEN RF_SENTINEL ELSE Zero)
                  ELSE FDiv(ret, FAbs(mdd))
        IN  [MDD |-> Frac(mdd.n * 100, mdd.d), RF |-> rf]

calculate_mdd_rf(df) ==
    IF df = <<>> THEN [MDD |-> Zero, RF |-> Zero]
    ELSE
        LET mdd == dd_min(df, Len(df))
            start_p == df[1].Open
            end_p == df[Len(df)].Close
            ret == Frac(end_p - start_p, start_p)
            rf == IF mdd.n = 0
                  THEN (IF ret.n > 0 THEN RF_SENTINEL ELSE Zero)
                  ELSE FDiv(ret, FAbs(mdd))
        IN  [MDD |-> Frac(mdd.n * 100, mdd.d), RF |-> rf]

-----------------------------------------------------------------------------
(* analyze_last_day_shape *)

CLOSE_HI == Frac(8, 10)
CLOSE_LO == Frac(2, 10)
MOVE_UP == Frac(3, 10)
MOVE_DN == Frac(-3, 10)

EmptyShape ==
    [score |-> 0, desc |-> "N/A", move |-> Zero, open |-> 0, high |-> 0,
     close |-> 0, date |-> None]

\* shape_band with the move tested before the close position
shape_band_move_first(close_pos, move_pct) ==
    IF FGt(move_pct, MOVE_UP) THEN [score |-> 1, desc |-> "Pos"]
    ELSE IF FLt(move_pct, MOVE_DN) THEN [score |-> -1, desc |-> "Neg"]
    ELSE IF FGt(close_pos, CLOSE_HI) THEN [score |-> 2, desc |-> "Strong"]
    ELSE IF FLt(close_pos, CLOSE_LO) THEN [score |-> -2, desc |-> "Weak"]
    ELSE [score |-> 0, desc |-> "Neut"]

\* the score bands of a day with a non-zero range
shape_band(close_pos, move_pct) ==
    IF FGt(close_pos, CLOSE_HI) THEN [score |-> 2, desc |-> "Strong"]
    ELSE IF FLt(close_pos, CLOSE_LO) THEN [score |-> -2, desc |-> "Weak"]
    ELSE IF FGt(move_pct, MOVE_UP) THEN [score |-> 1, desc |-> "Pos"]
    ELSE IF FLt(move_pct, MOVE_DN) THEN [score |-> -1, desc |-> "Neg"]
    ELSE [score |-> 0, desc |-> "Neut"]

\* the shape of a day from its open, close, extrema and base price
day_shape(last_date, open_p, close_p, high_p, low_p, move_pct) ==
    LET band == IF high_p - low_p = 0 THEN [score |-> 0, desc |-> "Doji"]
                ELSE shape_band(Frac(close_p - low_p, high_p - low_p), move_pct)
    IN  [score |-> band.score, desc |-> band.desc, move |-> move_pct,
         open |-> open_p, high |-> high_p, close |-> close_p,
         date |-> Some(last_date)]

\* the day's rows reduced to open, close and extrema; move_pct against base_p
last_day_shape(last_day_df, prev_close) ==
    LET open_p == last_day_df[1].Open
        close_p == last_day_df[Len(last_day_df)].Close
        base_p == IF prev_close # None THEN Val(prev_close) ELSE open_p
    IN  day_shape(last_day_df[1].date, open_p, close_p,
                  ColMax(last_day_df, "High"), ColMin(last_day_df, "Low"),
                  Frac((close_p - base_p) * 100, base_p))

analyze_last_day_shape(df, prev_close) ==
    IF df = <<>> THEN EmptyShape
    ELSE last_day_shape(SelectSeq(df, LAMBDA r : r.date = df[Len(df)].date), prev_close)

-----------------------------------------------------------------------------
(* generate_three_scenarios *)

TREND_UP == Frac(3, 1)
TREND_DN == Frac(-3, 1)

\* Outlook with the Bad slot never assigned
Outlook_bad_unset(grade, avg, good, bad) ==
    [grade |-> grade, scenarios |-> [Good |-> good, Avg |-> avg, Bad |-> ""]]

Outlook(grade, avg, good, bad) ==
    [grade |-> grade, scenarios |-> [Good |-> good, Avg |-> avg, Bad |-> bad]]

generate_three_scenarios(trend_return, last_score, last_move) ==
    IF FGt(trend_return, TREND_UP) THEN
        IF last_score >= 1 THEN
            Outlook("good", "uptrend continues, testing new highs",
                    "momentum accelerates into a band walk",
                    "profit taking brings a brief correction")
        ELSE IF last_score <= -1 THEN
            Outlook("neutral", "rally pauses, correction phase suggested",
                    "forms a dip and turns up again",
                    "breaks the recent low and the trend collapses")
        ELSE
            Outlook("good", "uptrend continues, waiting for a dip",
                    "breaks out of consolidation and re-accelerates",
                    "correction drags on into a range market")
    ELSE IF FLt(trend_return, TREND_DN) THEN
        IF last_score >= 1 THEN
            Outlook("neutral", "technical rebound, short covering leads",
                    "confirms the bottom and rebounds in earnest",
                    "only a temporary bounce, new lows follow")
        ELSE IF last_score <= -1 THEN
            Outlook("bad", "decline continues, searching for a low",
                    "selling climax followed by a sharp rebound",
                    "selling begets selling in a panic drop")
        ELSE
            Outlook("bad", "downtrend continues, beware selling on rallies",
                    "decline stops and a base forms",
                    "lows are cut gradually")
    ELSE
        IF last_score >= 1 THEN
            Outlook("good", "trying the top of the range",
                    "breaks above the range into a new uptrend",
                    "rejected at the top of the range, back to consolidation")
        ELSE IF last_score <= -1 THEN
            Outlook("bad", "trying the bottom of the range",
                    "supported at the bottom and rebounds",
                    "breaks below the range into a downtrend")
        ELSE
            Outlook("neutral", "no direction, wait and see",
                    "news sets it in motion",
                    "volume dries up into a quiet market")

-----------------------------------------------------------------------------
(* analyze_ticker *)

\* ticker_return measured against the end price
ticker_return_on_end(start_p, end_p) == Frac((end_p - start_p) * 100, end_p)

\* ret = (end_p - start_p) / start_p * 100
ticker_return(start_p, end_p) == Frac((end_p - start_p) * 100, start_p)

\* prev_close: the last close of the unfiltered rows before the day of the
\* window's final row
previous_close(raw, current_date) ==
    LET past_data == SelectSeq(raw, LAMBDA r : r.date < current_date)
    IN  IF past_data # <<>> THEN Some(past_data[Len(past_data)].Close) ELSE None

\* the dict analyze_ticker returns
ticker_result(ticker, df, ret, shape, outlook, risk) ==
    [Ticker |-> ticker, Start |-> df[1].Open, High |-> ColMax(df, "High"),
     End |-> df[Len(df)].Close, Return |-> ret,
     DateRange |-> <<df[1].date, df[Len(df)].date>>,
     LastScore |-> shape.score, LastDesc |-> shape.desc,
     LastMove |-> shape.move, LastOpen |-> shape.open,
     LastHigh |-> shape.high, LastClose |-> shape.close,
     LastDate |-> shape.date, Grade |-> outlook.grade,
     Scenarios |-> outlook.scenarios,
     MDD |-> risk.MDD, RF |-> risk.RF]

\* analyze_ticker from ret on, ret and the last-day shape known
grade_ticker(ticker, df, ret, shape) ==
    ticker_result(ticker, df, ret, shape,
                  generate_three_scenarios(ret, shape.score, shape.move),
                  calculate_mdd_rf(df))

\* analyze_ticker once the symbol's rows and its filtered window are known
analyze_rows(ticker, raw, df) ==
    IF df = <<>> THEN None
    ELSE Some(grade_ticker(ticker, df,
                           ticker_return(df[1].Open, df[Len(df)].Close),
                           analyze_last_day_shape(
                               df, previous_close(raw, df[Len(df)].date))))

analyze_ticker(ticker, dat, start, end, ivl) ==
    IF ticker \notin DOMAIN dat THEN None
    ELSE analyze_rows(ticker, dat[ticker],
                      filter_data_by_date(dat[ticker], start, end, ivl))

-----------------------------------------------------------------------------
(* analyze_sector *)

ENGINE == "ENGINE (lead)"
BRAKE == "BRAKE (drag)"

\* SECTOR_NAMES.get(t, THEME_NAMES.get(t, t)), for the sectors modelled
sec_name(sector_ticker) ==
    IF sector_ticker = "XLK" THEN "information technology"
    ELSE IF sector_ticker = "XLV" THEN "health care"
    ELSE IF sector_ticker = "ITB" THEN "housing, construction, real estate"
    ELSE IF sector_ticker = "FINX" THEN "fintech, cloud, payments"
    ELSE IF sector_ticker = "SOXX" THEN "semiconductors, AI, cyber"
    ELSE sector_ticker

\* classify_role with a tie counted as ENGINE
classify_role_tie_engine(st_res, s_res) ==
    IF FGe(st_res.Return, s_res.Return)
    THEN [Role |-> ENGINE, Reason |-> "leads the trend"]
    ELSE [Role |-> BRAKE, Reason |-> "weak on both horizons"]

\* rel_trend = st_res['Return'] - s_res['Return']; rel_trend > 0 is
\* st_res['Return'] > s_res['Return']
classify_role(st_res, s_res) ==
    IF FGt(st_res.Return, s_res.Return) THEN
        [Role |-> ENGINE,
         Reason |-> IF st_res.LastScore >= 0 THEN "leads the trend"
                    ELSE "strong trend, stalling lately"]
    ELSE
        [Role |-> BRAKE,
         Reason |-> IF st_res.LastScore > 0 THEN "laggard, bought lately"
                    ELSE "weak on both horizons"]

WithRole(st_res, role) ==
    [k \in DOMAIN st_res \cup {"Role", "Reason"} |->
        IF k = "Role" THEN role.Role
        ELSE IF k = "Reason" THEN role.Reason
        ELSE st_res[k]]

\* one pass of the loop body: a holding without a result is skipped
add_holding(stats, st_opt, s_res) ==
    IF st_opt = None THEN stats
    ELSE Append(stats, WithRole(Val(st_opt), classify_role(Val(st_opt), s_res)))

\* the loop over holdings: stats after the first k holdings
RECURSIVE sector_stats(_, _, _, _, _, _, _)
sector_stats(holdings, k, s_res, dat, start, end, ivl) ==
    IF k = 0 THEN <<>>
    ELSE add_holding(sector_stats(holdings, k - 1, s_res, dat, start, end, ivl),
                     analyze_ticker(holdings[k], dat, start, end, ivl), s_res)

\* one row put in its place in rows already sorted by descending Return,
\* after the rows of equal Return
RECURSIVE insert_desc(_, _)
insert_desc(sorted, row) ==
    IF sorted = <<>> THEN <<row>>
    ELSE IF FGt(row.Return, sorted[Len(sorted)].Return)
         THEN Append(insert_desc(SubSeq(sorted, 1, Len(sorted) - 1), row),
                     sorted[Len(sorted)])
         ELSE Append(sorted, row)

\* sort_values_desc that leaves the rows in holdings order
sort_values_none(stats) == stats

\* stats_df.sort_values("Return", ascending=False)
RECURSIVE sort_values_desc(_)
sort_values_desc(stats) ==
    IF stats = <<>> THEN <<>>
    ELSE insert_desc(sort_values_desc(SubSeq(stats, 1, Len(stats) - 1)),
                     stats[Len(stats)])

BREADTH_HI == Frac(8, 10)
BREADTH_LO == Frac(2, 10)
BREADTH_MID == Frac(5, 10)

\* breadth_quality with the healthy band opened at 0.8
breadth_quality_strict(engine_count, total_count) ==
    IF total_count > 0 THEN
        LET ratio == Frac(engine_count, total_count)
        IN  IF FGt(ratio, BREADTH_HI) THEN "healthy spread (Healthy)"
            ELSE IF FLe(ratio, BREADTH_LO) THEN "flight to a few (Selective)"
            ELSE IF FGt(ratio, BREADTH_MID) THEN "fairly broad (Broad)"
            ELSE "selective tone (Mixed)"
    ELSE "normal (Mixed)"

breadth_quality(engine_count, total_count) ==
    IF total_count > 0 THEN
        LET ratio == Frac(engine_count, total_count)
        IN  IF FGe(ratio, BREADTH_HI) THEN "healthy spread (Healthy)"
            ELSE IF FLe(ratio, BREADTH_LO) THEN "flight to a few (Selective)"
            ELSE IF FGt(ratio, BREADTH_MID) THEN "fairly broad (Broad)"
            ELSE "selective tone (Mixed)"
    ELSE "normal (Mixed)"

\* engine_count, total_count and the dict analyze_sector returns
sector_result(sector_ticker, s_res, stats) ==
    [sector |-> sector_ticker, name |-> sec_name(sector_ticker),
     return |-> s_res.Return, start_p |-> s_res.Start,
     end_p |-> s_res.End, date_range |-> s_res.DateRange,
     last_desc |-> s_res.LastDesc, last_move |-> s_res.LastMove,
     last_date |-> s_res.LastDate, grade |-> s_res.Grade,
     quality |-> breadth_quality(Len(SelectSeq(stats, LAMBDA st : st.Role = ENGINE)),
                                 Len(stats)),
     scenarios |-> s_res.Scenarios,
     stats |-> sort_values_desc(stats), MDD |-> s_res.MDD, RF |-> s_res.RF]

\* analyze_sector once the sector's own result is known
analyze_holdings(sector_ticker, s_opt, holdings, dat, start, end, ivl) ==
    IF s_opt = None THEN None
    ELSE Some(sector_result(
                  sector_ticker, Val(s_opt),
                  sector_stats(holdings, Len(holdings), Val(s_opt), dat, start, end, ivl)))

analyze_sector(sector_ticker, holdings, dat, start, end, ivl) ==
    analyze_holdings(sector_ticker,
                     analyze_ticker(sector_ticker, dat, start, end, ivl),
                     holdings, dat, start, end, ivl)

-----------------------------------------------------------------------------
(* main: the symbol tables and the analysis loops *)

Sector(sector, stocks) == [sector |-> sector, holdings |-> stocks]

\* the dicts, as their items in insertion order
SECTORS ==
    <<Sector("XLK", <<"AAPL", "NVDA", "MSFT", "AVGO", "CRM">>),
      Sector("XLV", <<"LLY", "UNH", "JNJ", "ABBV", "MRK">>),
      Sector("XLF", <<"BRK-B", "JPM", "V", "MA", "GS">>),
      Sector("XLY", <<"AMZN", "TSLA", "HD", "MCD", "NKE">>),
      Sector("XLC", <<"META", "GOOGL", "GOOG", "NFLX", "DIS">>),
      Sector("XLI", <<"CAT", "GE", "UNP", "HON", "RTX">>),
      Sector("XLP", <<"PG", "COST", "KO", "PEP", "WMT">>),
      Sector("XLE", <<"XOM", "CVX", "COP", "SLB", "EOG">>),
      Sector("XLRE", <<"PLD", "AMT", "EQIX", "WELL", "PSA">>),
      Sector("XLU", <<"NEE", "SO", "DUK", "CEG", "SRE">>),
      Sector("XLB", <<"LIN", "APD", "SHW", "CTVA", "FCX">>)>>

THEME_SECTORS ==
    <<Sector("ITB", <<"HD", "LOW", "SHW", "DHI", "LEN", "PHM", "NVR", "LII", "TOL", "BLD">>),
      Sector("FINX", <<"MSFT", "NVDA", "INTU", "FIS", "COIN", "PYPL", "SOFI", "PANW", "CRWD", "AFRM">>),
      Sector("GDX", <<"NEM", "AEM", "FCX", "SCCO", "ALB", "GOLD", "WPM", "NUE", "PAAS", "MP">>),
      Sector("XOP", <<"XOM", "CVX", "EOG", "SLB", "BKR", "HAL", "MPC", "PSX", "WMB", "KMI">>),
      Sector("ICLN", <<"TSLA", "NEE", "ENPH", "FSLR", "ALB", "CCJ", "FCX", "SEDG", "OKLO", "UEC">>),
      Sector("PAVE", <<"PLD", "EQIX", "AMT", "UNP", "CSX", "UPS", "FDX", "ETN", "AMZN", "CAT">>),
      Sector("SOXX", <<"NVDA", "MSFT", "AVGO", "TSM", "AMD", "ASML", "PANW", "CRWD", "SNOW", "ADBE">>),
      Sector("IBB", <<"AMGN", "ABBV", "REGN", "VRTX", "ISRG", "SYK", "MDT", "BSX", "ABT", "JNJ">>),
      Sector("ITA", <<"LMT", "RTX", "BA", "GD", "JPM", "BAC", "GS", "COST", "WMT", "UNP">>),
      Sector("KWEB", <<"PDD", "BABA", "YUMC", "TAL", "VIPS", "TME", "BZ", "EA", "TTWO", "RBLX">>)>>

INDICES == <<"QQQ", "SPY", "DIA">>
MACRO_TICKERS == <<"GLD", "FXY", "UUP", "TLT">>

MainIdle ==
    /\ index_results = <<>>
    /\ macro_results = <<>>
    /\ results = <<>>
    /\ theme_results = <<>>
    /\ report_file = None
    /\ raised = ""

\* for idx in INDICES / for m in MACRO_TICKERS: the results after the
\* first k tickers, a ticker without a result left out
RECURSIVE analyze_tickers(_, _, _, _, _, _)
analyze_tickers(tickers, k, dat, start, end, ivl) ==
    IF k = 0 THEN <<>>
    ELSE LET done == analyze_tickers(tickers, k - 1, dat, start, end, ivl)
             res == analyze_ticker(tickers[k], dat, start, end, ivl)
         IN  IF res = None THEN done ELSE Append(done, Val(res))

\* for sector, holdings in SECTORS.items() / THEME_SECTORS.items(): the
\* results after the first k sectors, a sector without a result left out
RECURSIVE analyze_sectors(_, _, _, _, _, _)
analyze_sectors(table, k, dat, start, end, ivl) ==
    IF k = 0 THEN <<>>
    ELSE LET done == analyze_sectors(table, k - 1, dat, start, end, ivl)
             res == analyze_sector(table[k].sector, table[k].holdings,
                                   dat, start, end, ivl)
         IN  IF res = None THEN done ELSE Append(done, Val(res))

-----------------------------------------------------------------------------
(* generate_narrative_report.  A call either returns a value or raises; the *)
(* report is modelled by what its sections name, not by its characters.     *)

Returned(v) == [raised |-> "", value |-> v]
Raises(exc) == [raised |-> exc, value |-> <<>>]

\* one result put in its place in results already sorted by descending return
RECURSIVE insert_by_return(_, _)
insert_by_return(sorted, res) ==
    IF sorted = <<>> THEN <<res>>
    ELSE IF FGt(res.return, sorted[Len(sorted)].return)
         THEN Append(insert_by_return(SubSeq(sorted, 1, Len(sorted) - 1), res),
                     sorted[Len(sorted)])
         ELSE Append(sorted, res)

\* sorted(results.values(), key=lambda x: x['return'], reverse=True)
RECURSIVE sorted_by_return(_)
sorted_by_return(rs) ==
    IF rs = <<>> THEN <<>>
    ELSE insert_by_return(sorted_by_return(SubSeq(rs, 1, Len(rs) - 1)), rs[Len(rs)])

Tickers(rows) == [k \in 1..Len(rows) |-> rows[k].Ticker]

\* stats is pd.DataFrame(stats): made from an empty list it has no column,
\* and stats['Role'] raises KeyError
append_sector_details(res) ==
    IF res.stats = <<>> THEN Raises("KeyError")
    ELSE Returned([sector |-> res.sector, name |-> res.name, quality |-> res.quality,
                   engines |-> Tickers(SelectSeq(res.stats, LAMBDA st : st.Role = ENGINE)),
                   brakes |-> Tickers(SelectSeq(res.stats, LAMBDA st : st.Role = BRAKE))])

\* for res in ...: _append_sector_details(report, res), the first k results
RECURSIVE append_all_details(_, _)
append_all_details(rs, k) ==
    IF k = 0 THEN Returned(<<>>)
    ELSE LET done == append_all_details(rs, k - 1)
             one == append_sector_details(rs[k])
         IN  IF done.raised # "" THEN done
             ELSE IF one.raised # "" THEN one
             ELSE Returned(Append(done.value, one.value))

\* sections 2 to 6, once sorted_secs is known not to be empty
report_sections(sorted_secs, sorted_themes, index_results_, macro_results_) ==
    LET secs == append_all_details(sorted_secs, Len(sorted_secs))
        themes == append_all_details(sorted_themes, Len(sorted_themes))
    IN  IF secs.raised # "" THEN secs
        ELSE IF themes.raised # "" THEN themes
        ELSE Returned([indices |-> Tickers(index_results_),
                       winner |-> sorted_secs[1].name,
                       loser |-> sorted_secs[Len(sorted_secs)].name,
                       sectors |-> secs.value, themes |-> themes.value,
                       macro |-> Tickers(macro_results_)])

\* winner = sorted_secs[0] raises IndexError on an empty list
generate_narrative_report(results_, index_results_, macro_results_, theme_results_) ==
    IF results_ = <<>> THEN Raises("IndexError")
    ELSE report_sections(sorted_by_return(results_), sorted_by_return(theme_results_),
                         index_results_, macro_results_)

-----------------------------------------------------------------------------
(* notify_line.py: main and send_line_push.  A text is modelled by its      *)
(* length and by the chunks of the report it is made of.                    *)

MAX_LENGTH == 4000
PUSH_LIMIT == 5000
\* len("\n\n" + "-"*20 + "\n\n"), what formatted_chunk adds to clean_chunk
FRAME_LEN == 24
\* the trailing "\n\n" that current_buffer.strip() removes
TAIL_LEN == 2

\* the stripped lengths a chunk of the report may have
ChunkLens == {0, 1000, 3000, 5000}

NotifierIdle ==
    /\ env = [token |-> FALSE, user |-> FALSE, file |-> FALSE]
    /\ raw_chunks = <<>>
    /\ messages_to_send = <<>>
    /\ send_i = 1
    /\ pushes = <<>>
    /\ npc = "idle"

EmptyText == [parts |-> <<>>, len |-> 0]

\* current_buffer.strip()
strip(buffer) ==
    [parts |-> buffer.parts,
     len |-> IF buffer.len = 0 THEN 0 ELSE buffer.len - TAIL_LEN]

\* one pass of the loop over raw_chunks, on chunk k
group_chunk(st, chunks, k) ==
    IF chunks[k] = 0 THEN st
    ELSE IF st.buffer.len + chunks[k] + FRAME_LEN > MAX_LENGTH THEN
        [msgs |-> Append(st.msgs, strip(st.buffer)),
         buffer |-> [parts |-> <<k>>, len |-> chunks[k] + FRAME_LEN]]
    ELSE
        [msgs |-> st.msgs,
         buffer |-> [parts |-> Append(st.buffer.parts, k),
                     len |-> st.buffer.len + chunks[k] + FRAME_LEN]]

\* the loop over raw_chunks, after its first k chunks
RECURSIVE group_chunks(_, _)
group_chunks(chunks, k) ==
    IF k = 0 THEN [msgs |-> <<>>, buffer |-> EmptyText]
    ELSE group_chunk(group_chunks(chunks, k - 1), chunks, k)

\* if current_buffer: messages_to_send.append(current_buffer.strip())
flush_buffer(st) ==
    IF st.buffer.len > 0 THEN Append(st.msgs, strip(st.buffer)) ELSE st.msgs

build_messages(chunks) == flush_buffer(group_chunks(chunks, Len(chunks)))

\* len(str(n))
RECURSIVE Digits(_)
Digits(n) == IF n < 10 THEN 1 ELSE 1 + Digits(n \div 10)

\* len(f"({i+1}/{len(messages_to_send)})\n")
header_len(page, pages) == 4 + Digits(page) + Digits(pages)

\* final_msg: the header, the page and its number, truncated to 5000
final_msg(msgs, page) ==
    [page |-> page, pages |-> Len(msgs), body |-> msgs[page].parts,
     len |-> Min(header_len(page, Len(msgs)) + msgs[page].len, PUSH_LIMIT)]

Pushed(msg, ok) ==
    [page |-> msg.page, pages |-> msg.pages, body |-> msg.body, len |-> msg.len,
     ok |-> ok]

-----------------------------------------------------------------------------
(* The ticker analyzer run: the provider's rows arrive, then one symbol is  *)
(* analyzed over a window.                                                  *)

TICKER == "SPY"

InitTicker ==
    /\ interval \in {"15m", "1d"}
    /\ data \in {<<>>, [t \in {TICKER} |-> <<>>]}
    /\ start_arg = None
    /\ end_arg = None
    /\ pc = "fetch"
    /\ ticker_res = None
    /\ sector_res = None
    /\ sc_calls = <<>>
    /\ NotifierIdle
    /\ MainIdle

\* yf.download delivers the next row of the symbol: intraday rows may share
\* a date, daily rows are one per date
FetchRow(P) ==
    /\ pc = "fetch"
    /\ TICKER \in DOMAIN data
    /\ Len(data[TICKER]) < MaxBars
    /\ \E b \in BarsOver(P), newday \in BOOLEAN :
          LET rows == data[TICKER]
              date == IF rows = <<>> THEN 1
                      ELSE IF newday THEN rows[Len(rows)].date + 1
                      ELSE rows[Len(rows)].date
          IN  /\ (interval = "1d" /\ rows # <<>>) => newday
              /\ rows = <<>> => newday
              /\ data' = [data EXCEPT ![TICKER] = Append(rows, Row(date, b))]
    /\ UNCHANGED <<interval, start_arg, end_arg, pc, ticker_res, sector_res, svars, nvars, mvars>>

AnalyzeTicker ==
    /\ pc = "fetch"
    /\ \E s \in WindowArgs, e \in WindowArgs :
          /\ start_arg' = s
          /\ end_arg' = e
          /\ ticker_res' = analyze_ticker(TICKER, data, s, e, interval)
    /\ pc' = "done"
    /\ UNCHANGED <<interval, data, sector_res, svars, nvars, mvars>>

Next == FetchRow(Prices) \/ AnalyzeTicker

Spec == InitTicker /\ [][Next]_vars

NextFine == FetchRow(FinePrices) \/ AnalyzeTicker

SpecFine == InitTicker /\ [][NextFine]_vars

-----------------------------------------------------------------------------
(* The scenario classifier called on its own, as main's analyzers call it   *)
(* once per symbol.                                                         *)

TrendInputs == {Frac(-301, 100), Frac(-3, 1), Frac(0, 1), Frac(3, 1), Frac(301, 100)}
ScoreInputs == {-2, -1, 0, 1, 2}
MoveInputs == {Frac(-1, 1), Frac(0, 1), Frac(1, 1)}

AnalyzerIdle ==
    /\ interval = "15m"
    /\ data = <<>>
    /\ start_arg = None
    /\ end_arg = None
    /\ pc = "idle"
    /\ ticker_res = None
    /\ sector_res = None

InitScenario ==
    /\ AnalyzerIdle
    /\ sc_calls = <<>>
    /\ NotifierIdle
    /\ MainIdle

CallScenarios ==
    /\ Len(sc_calls) < MaxCalls
    /\ \E t \in TrendInputs, sc \in ScoreInputs, m \in MoveInputs :
          sc_calls' = Append(sc_calls,
                             [trend_return |-> t, last_score |-> sc, last_move |-> m,
                              ret |-> generate_three_scenarios(t, sc, m)])
    /\ UNCHANGED <<avars, nvars, mvars>>

NextScenario == CallScenarios

SpecScenario == InitScenario /\ [][NextScenario]_vars

-----------------------------------------------------------------------------
(* The sector analyzer run: one sector and its holdings, over the rows the  *)
(* provider returned for them.                                              *)

SECTOR == "SOXX"
SOXX_HOLDINGS ==
    <<"NVDA", "MSFT", "AVGO", "TSM", "AMD", "ASML", "PANW", "CRWD", "SNOW", "ADBE">>
HOLDINGS == SubSeq(SOXX_HOLDINGS, 1, MaxHoldings)
SectorTickers == {SECTOR} \cup {HOLDINGS[i] : i \in 1..Len(HOLDINGS)}

\* the rows a symbol may come with: none left by dropna, a flat day, a rising
\* day, a falling day
SeriesPool ==
    {<<>>,
     <<Row(1, [Open |-> 100, High |-> 100, Low |-> 100, Close |-> 100])>>,
     <<Row(1, [Open |-> 100, High |-> 110, Low |-> 100, Close |-> 110])>>,
     <<Row(1, [Open |-> 100, High |-> 100, Low |-> 90, Close |-> 90])>>}

\* main calls with both bounds set; analyze_sector defaults both to None
SectorWindows == {<<None, None>>, <<Some(1), Some(1)>>}

InitSector ==
    /\ interval \in {"15m", "1d"}
    /\ \E present \in SUBSET SectorTickers : data \in [present -> SeriesPool]
    /\ \E w \in SectorWindows : start_arg = w[1] /\ end_arg = w[2]
    /\ pc = "sector"
    /\ ticker_res = None
    /\ sector_res = None
    /\ sc_calls = <<>>
    /\ NotifierIdle
    /\ MainIdle

AnalyzeSector ==
    /\ pc = "sector"
    /\ sector_res' = analyze_sector(SECTOR, HOLDINGS, data, start_arg, end_arg, interval)
    /\ pc' = "done"
    /\ UNCHANGED <<interval, data, start_arg, end_arg, ticker_res, svars, nvars, mvars>>

NextSector == AnalyzeSector

SpecSector == InitSector /\ [][NextSector]_vars

-----------------------------------------------------------------------------
(* The analysis run: analyze_sectors.py main, over the leading entries of   *)
(* the symbol tables.                                                       *)

Take(seq, n) == SubSeq(seq, 1, Min(n, Len(seq)))
Elems(seq) == {seq[k] : k \in 1..Len(seq)}

RunSector(sec) == Sector(sec.sector, Take(sec.holdings, MaxStocks))
RunTable(table) == [k \in 1..Min(MaxSectors, Len(table)) |-> RunSector(table[k])]
RunIndices == Take(INDICES, MaxIndices)
RunMacros == Take(MACRO_TICKERS, MaxMacros)
RunSectors == RunTable(SECTORS)
RunThemes == RunTable(THEME_SECTORS)

TableTickers(table) ==
    UNION {{table[k].sector} \cup Elems(table[k].holdings) : k \in 1..Len(table)}

\* all_tickers of fetch_data, for the entries the run is modelled over
all_tickers ==
    TableTickers(RunSectors) \cup TableTickers(RunThemes)
        \cup Elems(RunIndices) \cup Elems(RunMacros)

\* the rows a symbol may come with: a rising bar on the first day of the
\* window, or a falling bar on its last day, which an intraday run filters out
RunSeries ==
    {<<Row(1, [Open |-> 100, High |-> 110, Low |-> 100, Close |-> 110])>>,
     <<Row(2, [Open |-> 100, High |-> 100, Low |-> 90, Close |-> 90])>>}

\* main hands start_str and end_str to every analyzer
InitMain ==
    /\ interval \in {"15m", "1d"}
    /\ \E present \in SUBSET all_tickers : data \in [present -> RunSeries]
    /\ start_arg = Some(1)
    /\ end_arg = Some(2)
    /\ pc = "fetch"
    /\ ticker_res = None
    /\ sector_res = None
    /\ sc_calls = <<>>
    /\ NotifierIdle
    /\ MainIdle

\* fetch_data returns the download
FetchData ==
    /\ pc = "fetch"
    /\ pc' = "indices"
    /\ UNCHANGED <<interval, data, start_arg, end_arg, ticker_res, sector_res,
                   svars, nvars, mvars>>

\* yf.download raises: fetch_data returns None and main returns
FetchDataFails ==
    /\ pc = "fetch"
    /\ pc' = "no_data"
    /\ UNCHANGED <<interval, data, start_arg, end_arg, ticker_res, sector_res,
                   svars, nvars, mvars>>

AnalyzeIndices ==
    /\ pc = "indices"
    /\ index_results' = analyze_tickers(RunIndices, Len(RunIndices), data,
                                        start_arg, end_arg, interval)
    /\ pc' = "macro"
    /\ UNCHANGED <<interval, data, start_arg, end_arg, ticker_res, sector_res,
                   svars, nvars, macro_results, results, theme_results,
                   report_file, raised>>

AnalyzeMacros ==
    /\ pc = "macro"
    /\ macro_results' = analyze_tickers(RunMacros, Len(RunMacros), data,
                                        start_arg, end_arg, interval)
    /\ pc' = "sectors"
    /\ UNCHANGED <<interval, data, start_arg, end_arg, ticker_res, sector_res,
                   svars, nvars, index_results, results, theme_results,
                   report_file, raised>>

AnalyzeSectors ==
    /\ pc = "sectors"
    /\ results' = analyze_sectors(RunSectors, Len(RunSectors), data,
                                  start_arg, end_arg, interval)
    /\ pc' = "themes"
    /\ UNCHANGED <<interval, data, start_arg, end_arg, ticker_res, sector_res,
                   svars, nvars, index_results, macro_results, theme_results,
                   report_file, raised>>

AnalyzeThemes ==
    /\ pc = "themes"
    /\ theme_results' = analyze_sectors(RunThemes, Len(RunThemes), data,
                                        start_arg, end_arg, interval)
    /\ pc' = "report"
    /\ UNCHANGED <<interval, data, start_arg, end_arg, ticker_res, sector_res,
                   svars, nvars, index_results, macro_results, results,
                   report_file, raised>>

Report == generate_narrative_report(results, index_results, macro_results, theme_results)

\* if results or theme_results: the report is generated and written
WriteReport ==
    /\ pc = "report"
    /\ results # <<>> \/ theme_results # <<>>
    /\ Report.raised = ""
    /\ report_file' = Some(Report.value)
    /\ pc' = "done"
    /\ UNCHANGED <<interval, data, start_arg, end_arg, ticker_res, sector_res,
                   svars, nvars, index_results, macro_results, results,
                   theme_results, raised>>

\* generate_narrative_report raises: nothing catches it, nothing is written
ReportRaises ==
    /\ pc = "report"
    /\ results # <<>> \/ theme_results # <<>>
    /\ Report.raised # ""
    /\ raised' = Report.raised
    /\ pc' = "done"
    /\ UNCHANGED <<interval, data, start_arg, end_arg, ticker_res, sector_res,
                   svars, nvars, index_results, macro_results, results,
                   theme_results, report_file>>

\* neither dict has an entry: main ends without a report
NoReport ==
    /\ pc = "report"
    /\ results = <<>> /\ theme_results = <<>>
    /\ pc' = "done"
    /\ UNCHANGED <<interval, data, start_arg, end_arg, ticker_res, sector_res,
                   svars, nvars, mvars>>

NextMain ==
    \/ FetchData \/ FetchDataFails
    \/ AnalyzeIndices \/ AnalyzeMacros \/ AnalyzeSectors \/ AnalyzeThemes
    \/ WriteReport \/ ReportRaises \/ NoReport

SpecMain == InitMain /\ [][NextMain]_vars

-----------------------------------------------------------------------------
(* The notifier run: notify_line.py main *)

InitNotifier ==
    /\ AnalyzerIdle
    /\ sc_calls = <<>>
    /\ env \in [token : BOOLEAN, user : BOOLEAN, file : BOOLEAN]
    /\ \E n \in 1..MaxChunks : raw_chunks \in [1..n -> ChunkLens]
    /\ messages_to_send = <<>>
    /\ send_i = 1
    /\ pushes = <<>>
    /\ npc = "start"
    /\ MainIdle

\* a missing token, user id or report file: main returns
Abort ==
    /\ npc = "start"
    /\ ~(env.token /\ env.user /\ env.file)
    /\ npc' = "done"
    /\ UNCHANGED <<env, raw_chunks, messages_to_send, send_i, pushes, avars, svars, mvars>>

\* the report is read, split and grouped into the queue
ReadAndSplit ==
    /\ npc = "start"
    /\ env.token /\ env.user /\ env.file
    /\ messages_to_send' = build_messages(raw_chunks)
    /\ send_i' = 1
    /\ npc' = IF build_messages(raw_chunks) = <<>> THEN "done" ELSE "send"
    /\ UNCHANGED <<env, raw_chunks, pushes, avars, svars, mvars>>

\* send_line_push returns True: sleep, then the next message if there is one
PushOk ==
    /\ npc = "send"
    /\ pushes' = Append(pushes, Pushed(final_msg(messages_to_send, send_i), TRUE))
    /\ send_i' = send_i + 1
    /\ npc' = IF send_i = Len(messages_to_send) THEN "done" ELSE "send"
    /\ UNCHANGED <<env, raw_chunks, messages_to_send, avars, svars, mvars>>

\* PushFail without the break
PushFail_no_break ==
    /\ npc = "send"
    /\ pushes' = Append(pushes, Pushed(final_msg(messages_to_send, send_i), FALSE))
    /\ send_i' = send_i + 1
    /\ npc' = IF send_i = Len(messages_to_send) THEN "done" ELSE "send"
    /\ UNCHANGED <<env, raw_chunks, messages_to_send, avars, svars, mvars>>

\* send_line_push returns False: the loop breaks
PushFail ==
    /\ npc = "send"
    /\ pushes' = Append(pushes, Pushed(final_msg(messages_to_send, send_i), FALSE))
    /\ npc' = "done"
    /\ UNCHANGED <<env, raw_chunks, messages_to_send, send_i, avars, svars, mvars>>

NextNotifier == Abort \/ ReadAndSplit \/ PushOk \/ PushFail

SpecNotifier == InitNotifier /\ [][NextNotifier]_vars

-----------------------------------------------------------------------------
(* Properties of the ticker analyzer *)

\* the rows the run fetched for the symbol, and what the window keeps of them
Fetched == IF TICKER \in DOMAIN data THEN data[TICKER] ELSE <<>>
Window == filter_data_by_date(Fetched, start_arg, end_arg, interval)
Analyzed == pc = "done" /\ ticker_res # None
Res == Val(ticker_res)

\* C1: a symbol with rows left after window filtering gets a result whose
\* Return is (last close - first open) / first open * 100 over the filtered
\* rows; a missing symbol or an empty window gets None, never a zero return.
C1_ReturnFromWindow ==
    pc = "done" =>
        LET df == Window
        IN  IF df = <<>> THEN ticker_res = None
            ELSE /\ ticker_res # None
                 /\ Res.Return.d > 0
                 /\ Res.Return.n * df[1].Open
                      = 100 * (df[Len(df)].Close - df[1].Open) * Res.Return.d

C1_Witness ==
    /\ Analyzed
    /\ Len(Window) < Len(Fetched)
    /\ Res.Return.n > 0
    /\ Window[1].Open # Fetched[1].Open

\* the running maximum of High and the drawdown at row i, from the rows
HighWater(df, i) == CHOOSE m \in {df[j].High : j \in 1..i} :
                        \A j \in 1..i : df[j].High <= m
\* whether row i's drawdown, in percent, is the value f
IsDrawdownAt(df, i, f) ==
    f.n * HighWater(df, i) = 100 * (df[i].Low - HighWater(df, i)) * f.d
\* whether f is at most row i's drawdown in percent
AtMostDrawdownAt(df, i, f) ==
    f.n * HighWater(df, i) <= 100 * (df[i].Low - HighWater(df, i)) * f.d

\* C2: over a non-empty filtered window the MDD returned is the minimum over
\* the rows of (low - running maximum of high) / running maximum, in
\* percent, and it is never positive.
C2_MddNotPositive ==
    Analyzed =>
        LET df == Window
            mdd == Res.MDD
        IN  /\ mdd.d > 0
            /\ mdd.n <= 0
            /\ \E i \in 1..Len(df) : IsDrawdownAt(df, i, mdd)
            /\ \A i \in 1..Len(df) : AtMostDrawdownAt(df, i, mdd)

C2_Witness ==
    /\ Analyzed
    /\ Len(Window) >= 2
    /\ Res.MDD.n < 0
    /\ ~IsDrawdownAt(Window, Len(Window), Res.MDD)
    /\ Window[Len(Window)].Low > Window[1].High

\* the epsilon of the drawdown, in percent: 0.001
MddAboveEpsilon(mdd) == Abs(mdd.n) * 1000 > mdd.d
\* return fraction / |MDD fraction| of the window, from its rows and MDD
ReturnOverMdd(df, mdd) ==
    Frac((df[Len(df)].Close - df[1].Open) * 100 * mdd.d, df[1].Open * Abs(mdd.n))
SentinelRf(df) ==
    IF df[Len(df)].Close > df[1].Open THEN Frac(9999, 100) ELSE Frac(0, 1)

\* C3 as stated: RF is return / |MDD| exactly when |MDD| exceeds 0.001
\* percent; at or below it (small non-zero drawdowns included) RF is the
\* sentinel 99.99 for a positive return and 0 otherwise.
C3_SentinelBelowEpsilon ==
    Analyzed =>
        LET df == Window
        IN  IF MddAboveEpsilon(Res.MDD) THEN Res.RF = ReturnOverMdd(df, Res.MDD)
            ELSE Res.RF = SentinelRf(df)

\* C3 amended: RF is return / |MDD| exactly when MDD is not 0, however
\* small; only at MDD = 0 is RF the sentinel 99.99 for a positive return
\* and 0 otherwise.
C3_SentinelAtZeroOnly ==
    Analyzed =>
        LET df == Window
        IN  IF Res.MDD.n # 0 THEN Res.RF = ReturnOverMdd(df, Res.MDD)
            ELSE Res.RF = SentinelRf(df)

C3_Witness ==
    /\ Analyzed
    /\ Res.MDD.n # 0
    /\ ~MddAboveEpsilon(Res.MDD)
    /\ Res.Return.n > 0
    /\ Res.RF = ReturnOverMdd(Window, Res.MDD)
    /\ FGt(Res.RF, Frac(1, 1))

\* the day of the final row of df: its rows in df, and the rows of raw
\* before that day
First(S) == CHOOSE i \in S : \A j \in S : i <= j
Last(S) == CHOOSE i \in S : \A j \in S : j <= i
DayRows(df) == {i \in 1..Len(df) : df[i].date = df[Len(df)].date}
PrevRows(df, raw) == {i \in 1..Len(raw) : raw[i].date < df[Len(df)].date}
DayOpen(df) == df[First(DayRows(df))].Open
DayClose(df) == df[Last(DayRows(df))].Close
DayHigh(df) ==
    LET D == DayRows(df)
    IN  df[CHOOSE i \in D : \A j \in D : df[j].High <= df[i].High].High
DayLow(df) ==
    LET D == DayRows(df)
    IN  df[CHOOSE i \in D : \A j \in D : df[i].Low <= df[j].Low].Low
DayBase(df, raw) ==
    LET P == PrevRows(df, raw)
    IN  IF P # {} THEN raw[Last(P)].Close ELSE DayOpen(df)
\* the bands, in integers: close_position against 0.8 and 0.2, move% against
\* +0.3 and -0.3
ExpectedScore(high, low, close, base) ==
    IF high = low THEN 0
    ELSE IF 10 * (close - low) > 8 * (high - low) THEN 2
    ELSE IF 10 * (close - low) < 2 * (high - low) THEN -2
    ELSE IF 1000 * (close - base) > 3 * base THEN 1
    ELSE IF 1000 * (close - base) < -3 * base THEN -1
    ELSE 0

\* C4: the last-day score is 0 on a zero-range day, else +2 / -2 by the
\* close position above 0.8 / below 0.2, else +1 / -1 by the move against the
\* previous day's close (the day's open when there is none) beyond +-0.3 %,
\* else 0; it is always one of -2..2.
C4_LastDayScore ==
    Analyzed =>
        LET df == Window
            r == Res
            high == DayHigh(df)
            low == DayLow(df)
            close == DayClose(df)
            base == DayBase(df, Fetched)
        IN  /\ r.LastScore = ExpectedScore(high, low, close, base)
            /\ r.LastScore \in {-2, -1, 0, 1, 2}
            /\ r.LastMove.n * base = 100 * (close - base) * r.LastMove.d
            /\ r.LastOpen = DayOpen(df) /\ r.LastHigh = high /\ r.LastClose = close

C4_Witness ==
    /\ Analyzed
    /\ PrevRows(Window, Fetched) # {}
    /\ DayBase(Window, Fetched) # DayOpen(Window)
    /\ DayHigh(Window) # DayLow(Window)
    /\ Res.LastScore = -1
    /\ DayClose(Window) > DayOpen(Window)

\* the price of df never falls: inside each row it moves from its open, the
\* row's low, up to its close, the row's high, and no row opens below the
\* close before it
RisesMonotonically(df) ==
    /\ \A i \in 1..Len(df) :
          df[i].Low = df[i].Open /\ df[i].Open <= df[i].Close /\ df[i].Close = df[i].High
    /\ \A i \in 2..Len(df) : df[i - 1].Close <= df[i].Open
AllRowsFlat(df) == \A i \in 1..Len(df) : df[i].Low = df[i].High
\* close_position of the final day is 1.0 / 0.0
ClosesAtDayHigh(df) == DayHigh(df) > DayLow(df) /\ DayClose(df) = DayHigh(df)
ClosesAtDayLow(df) == DayHigh(df) > DayLow(df) /\ DayClose(df) = DayLow(df)
RisingCase ==
    /\ Analyzed
    /\ RisesMonotonically(Window)
    /\ Window[1].Open = 100 /\ Window[Len(Window)].Close = 110
    /\ ClosesAtDayHigh(Window)
FallingCase ==
    /\ Analyzed
    /\ Window[1].Open = 100 /\ Window[Len(Window)].Close = 90
    /\ ClosesAtDayLow(Window)

\* C8 as stated: a monotonic rise from a first open of 100 to a last close of
\* 110 whose final day closes at its high gives return +10 %, MDD 0, RF the
\* sentinel, last-day score +2 and grade good.
C8_RisingGivesZeroMdd ==
    RisingCase =>
        /\ Res.Return = Frac(10, 1)
        /\ Res.MDD = Frac(0, 1)
        /\ Res.RF = Frac(9999, 100)
        /\ Res.LastScore = 2
        /\ Res.Grade = "good"

\* C8 amended: the rise gives return +10 %, last-day score +2 and grade good;
\* MDD is 0 and RF the sentinel exactly when every row of the window is flat
\* (low = high); a row with a range has its low measured against its own
\* high, so MDD < 0 and RF = return / |MDD| > 0.
C8_RisingCase ==
    RisingCase =>
        LET df == Window
        IN  /\ Res.Return = Frac(10, 1)
            /\ Res.LastScore = 2
            /\ Res.Grade = "good"
            /\ IF AllRowsFlat(df)
               THEN Res.MDD = Frac(0, 1) /\ Res.RF = Frac(9999, 100)
               ELSE /\ Res.MDD.n < 0
                    /\ Res.RF = ReturnOverMdd(df, Res.MDD)
                    /\ Res.RF.n > 0

C8_Witness ==
    /\ RisingCase
    /\ Len(Window) = 2
    /\ ~AllRowsFlat(Window)
    /\ Res.MDD.n < 0
    /\ Res.RF # Frac(9999, 100)

\* C9: a fall from a first open of 100 to a last close of 90 whose final day
\* closes at its low (close_position 0) gives return -10 %, MDD < 0, RF < 0,
\* last-day score -2 and grade bad.
C9_FallingCase ==
    FallingCase =>
        /\ Res.Return = Frac(-10, 1)
        /\ Res.MDD.n < 0
        /\ Res.RF.n < 0
        /\ Res.LastScore = -2
        /\ Res.Grade = "bad"

C9_Witness ==
    /\ FallingCase
    /\ Len(Window) = 2
    /\ Window[1].date < Window[2].date
    /\ Res.RF.n < 0
    /\ Res.LastScore = -2

-----------------------------------------------------------------------------
(* Properties of the scenario classifier *)

TrendRegime(t) ==
    IF FGt(t, Frac(3, 1)) THEN "strong-up"
    ELSE IF FLt(t, Frac(-3, 1)) THEN "strong-down"
    ELSE "range"
MomentumRegime(sc) ==
    IF sc >= 1 THEN "strong" ELSE IF sc <= -1 THEN "weak" ELSE "flat"
Combination(c) == <<TrendRegime(c.trend_return), MomentumRegime(c.last_score)>>

\* C5: every call of generate_three_scenarios returns a grade among good,
\* neutral and bad and a non-empty text in each of the slots Good, Avg and
\* Bad, and two calls whose arguments fall in the same of the 9 trend x
\* momentum combinations return the same value.
C5_ScenarioTable ==
    \A i \in 1..Len(sc_calls) :
        LET c == sc_calls[i]
        IN  /\ c.ret.grade \in {"good", "neutral", "bad"}
            /\ DOMAIN c.ret.scenarios = {"Good", "Avg", "Bad"}
            /\ \A k \in {"Good", "Avg", "Bad"} : c.ret.scenarios[k] # ""
            /\ \A j \in 1..Len(sc_calls) :
                  Combination(sc_calls[j]) = Combination(c) => sc_calls[j].ret = c.ret

C5_Witness ==
    /\ Len(sc_calls) = 2
    /\ Combination(sc_calls[1]) = Combination(sc_calls[2])
    /\ Combination(sc_calls[1]) = <<"range", "weak">>
    /\ sc_calls[1].trend_return # sc_calls[2].trend_return
    /\ sc_calls[1].last_score # sc_calls[2].last_score
    /\ sc_calls[1].last_move # sc_calls[2].last_move
    /\ sc_calls[1].ret.grade = "bad"

-----------------------------------------------------------------------------
(* Properties of the sector analyzer *)

SectorDone == pc = "done" /\ sector_res # None
Sec == Val(sector_res)
Engines(stats) == {i \in 1..Len(stats) : stats[i].Role = ENGINE}

\* C6: every constituent in a sector result carries exactly one of the two
\* roles: ENGINE when its return% exceeds the sector's return%, BRAKE
\* otherwise, equality included; none is left NEUTRAL or unset.
C6_RoleIsBinary ==
    SectorDone =>
        \A i \in 1..Len(Sec.stats) :
            LET st == Sec.stats[i]
            IN  /\ "Role" \in DOMAIN st
                /\ st.Role \in {ENGINE, BRAKE}
                /\ st.Role = ENGINE
                     <=> st.Return.n * Sec.return.d > Sec.return.n * st.Return.d
                /\ st.Role = BRAKE
                     <=> st.Return.n * Sec.return.d <= Sec.return.n * st.Return.d

C6_Witness ==
    /\ SectorDone
    /\ \E i, j, k \in 1..Len(Sec.stats) :
          /\ Sec.stats[i].Role = ENGINE
          /\ Sec.stats[j].Role = BRAKE /\ Sec.stats[j].Return = Sec.return
          /\ Sec.stats[k].Role = BRAKE /\ Sec.stats[k].Return # Sec.return

\* the label of engine_count out of total, the ratio bands in integers
ExpectedBreadth(e, t) ==
    IF t = 0 THEN "normal (Mixed)"
    ELSE IF 10 * e >= 8 * t THEN "healthy spread (Healthy)"
    ELSE IF 10 * e <= 2 * t THEN "flight to a few (Selective)"
    ELSE IF 2 * e > t THEN "fairly broad (Broad)"
    ELSE "selective tone (Mixed)"

\* C7: the breadth label is decided by engine_count / total over the
\* analyzed constituents alone: no constituent gives the default mixed
\* label, a ratio >= 0.8 healthy, <= 0.2 selective, above 0.5 moderately
\* broad, else mixed; of 5 constituents, 4 or 5 engines are healthy, 3
\* moderately broad, 2 mixed, 1 selective.
C7_BreadthByRatio ==
    SectorDone =>
        LET e == Cardinality(Engines(Sec.stats))
            t == Len(Sec.stats)
        IN  /\ Sec.quality = ExpectedBreadth(e, t)
            /\ t = 5 =>
                 /\ e \in {4, 5} => Sec.quality = "healthy spread (Healthy)"
                 /\ e = 3 => Sec.quality = "fairly broad (Broad)"
                 /\ e = 2 => Sec.quality = "selective tone (Mixed)"
                 /\ e = 1 => Sec.quality = "flight to a few (Selective)"

C7_Witness ==
    /\ SectorDone
    /\ Len(Sec.stats) = 5
    /\ Cardinality(Engines(Sec.stats)) = 4
    /\ Sec.quality = "healthy spread (Healthy)"

-----------------------------------------------------------------------------
(* Properties of the notifier *)

IsPrefix(s, t) == Len(s) <= Len(t) /\ SubSeq(t, 1, Len(s)) = s
LastFailed(log) == log # <<>> /\ ~log[Len(log)].ok

\* the k-th push carries the k-th message of the queue under the header
\* (k/N), and every push before the last one succeeded
PushesInQueueOrder ==
    \A k \in 1..Len(pushes) :
        /\ k <= Len(messages_to_send)
        /\ pushes[k].page = k
        /\ pushes[k].pages = Len(messages_to_send)
        /\ pushes[k].body = messages_to_send[k].parts
        /\ k < Len(pushes) => pushes[k].ok

\* a step adds at most one push and takes none back; after a failed push it
\* adds none
HaltsAtFirstFailure ==
    /\ IsPrefix(pushes, pushes')
    /\ Len(pushes') <= Len(pushes) + 1
    /\ LastFailed(pushes) => pushes' = pushes

\* C10: the messages are pushed in queue order, the i-th under the header
\* (i/N); after the first failed push no later message is attempted, the
\* failed one is not retried, and what was sent before stays sent.
C10_OrderedHaltOnFailure == []PushesInQueueOrder /\ [][HaltsAtFirstFailure]_vars

C10_Witness ==
    /\ npc = "done"
    /\ Len(messages_to_send) = 3
    /\ Len(pushes) = 2
    /\ pushes[1].ok
    /\ ~pushes[2].ok

-----------------------------------------------------------------------------
(* Properties of the analysis run *)

\* the symbol came with at least one bar inside the window
Available(t) ==
    /\ t \in DOMAIN data
    /\ filter_data_by_date(data[t], start_arg, end_arg, interval) # <<>>

SectorTickersOf(rs) == [k \in 1..Len(rs) |-> rs[k].sector]
SectorNames(table) == [k \in 1..Len(table) |-> table[k].sector]
HoldingsOf(table, sector) ==
    LET k == CHOOSE j \in 1..Len(table) : table[j].sector = sector
    IN  table[k].holdings

\* a sector result lists exactly the available holdings of its sector, each
\* with a role
HoldingsKept(table, res) ==
    /\ Elems(Tickers(res.stats)) = {h \in Elems(HoldingsOf(table, res.sector)) : Available(h)}
    /\ Len(res.stats) = Cardinality(Elems(Tickers(res.stats)))
    /\ \A k \in 1..Len(res.stats) : res.stats[k].Role \in {ENGINE, BRAKE}

\* every available index, macro ticker and sector has its result, and every
\* sector result has its available holdings
AnalysisIsolated ==
    /\ Tickers(index_results) = SelectSeq(RunIndices, Available)
    /\ Tickers(macro_results) = SelectSeq(RunMacros, Available)
    /\ SectorTickersOf(results) = SelectSeq(SectorNames(RunSectors), Available)
    /\ SectorTickersOf(theme_results) = SelectSeq(SectorNames(RunThemes), Available)
    /\ \A k \in 1..Len(results) : HoldingsKept(RunSectors, results[k])
    /\ \A k \in 1..Len(theme_results) : HoldingsKept(RunThemes, theme_results[k])

\* C11: whichever symbols are missing or have no bar in the window, the run
\* analyzes every other index, macro ticker and sector, each sector result
\* keeps and classifies its other holdings, and the run does not fail.
C11_FailureIsolated ==
    pc = "done" => AnalysisIsolated /\ raised = ""

-----------------------------------------------------------------------------
(* The constituent list of a sector result *)

AnalyzedHoldings == {h \in Elems(HOLDINGS) : Available(h)}

\* C12: the constituents of a sector result are in descending order of
\* return%, and are exactly the holdings that were analyzed, each once; a
\* sector whose own symbol was analyzed has its result even when no holding
\* was, then with no constituent and the default breadth label.
C12_ConstituentsSortedAndExact ==
    pc = "done" =>
        /\ Available(SECTOR) <=> sector_res # None
        /\ sector_res # None =>
              /\ \A a, b \in 1..Len(Sec.stats) :
                    a < b => FGe(Sec.stats[a].Return, Sec.stats[b].Return)
              /\ Elems(Tickers(Sec.stats)) = AnalyzedHoldings
              /\ Len(Sec.stats) = Cardinality(AnalyzedHoldings)
              /\ AnalyzedHoldings = {} =>
                    Sec.stats = <<>> /\ Sec.quality = "normal (Mixed)"

\* three constituents of distinct returns, the first two holdings out of
\* order before the sort, and a holding without data
C12_Witness ==
    /\ SectorDone
    /\ Len(Sec.stats) = 3
    /\ HOLDINGS[1] \in AnalyzedHoldings /\ HOLDINGS[2] \in AnalyzedHoldings
    /\ FLt(Val(analyze_ticker(HOLDINGS[1], data, start_arg, end_arg, interval)).Return,
           Val(analyze_ticker(HOLDINGS[2], data, start_arg, end_arg, interval)).Return)
    /\ FGt(Sec.stats[1].Return, Sec.stats[2].Return)
    /\ FGt(Sec.stats[2].Return, Sec.stats[3].Return)
    /\ Cardinality(AnalyzedHoldings) < Len(HOLDINGS)

\* the sector analyzed, none of its holdings
C12_WitnessNoConstituent ==
    /\ SectorDone
    /\ Sec.stats = <<>>
    /\ Sec.quality = "normal (Mixed)"

-----------------------------------------------------------------------------
(* The queue the notifier builds *)

Queued == npc \in {"send", "done"} /\ env.token /\ env.user /\ env.file

\* the chunks of the first k messages, in queue order
RECURSIVE QueuedChunks(_, _)
QueuedChunks(msgs, k) ==
    IF k = 0 THEN <<>> ELSE QueuedChunks(msgs, k - 1) \o msgs[k].parts

\* the non-empty chunks of the report, in report order
NonEmptyChunks(chunks) == SelectSeq([k \in 1..Len(chunks) |-> k], LAMBDA k : chunks[k] > 0)

ChunksKeptInOrder ==
    QueuedChunks(messages_to_send, Len(messages_to_send)) = NonEmptyChunks(raw_chunks)

\* C13: every message in the queue is at most MAX_LENGTH characters long,
\* whatever the report and wherever its delimiters are.
C13_SegmentsWithinBudget ==
    Queued => \A k \in 1..Len(messages_to_send) : messages_to_send[k].len <= MAX_LENGTH

\* C15: every message in the queue is non-empty, also when the first
\* non-empty chunk alone is longer than MAX_LENGTH, and the non-empty chunks
\* of the report are in the queue in report order, none dropped.
C15_QueueNonEmptyInOrder ==
    Queued =>
        /\ \A k \in 1..Len(messages_to_send) : messages_to_send[k].len > 0
        /\ ChunksKeptInOrder

-----------------------------------------------------------------------------
(* The drawdown of a rising window *)

\* every price of a row is above the same price of the row before it
StrictlyIncreasing(df) ==
    \A i \in 2..Len(df) :
        /\ df[i].Open > df[i - 1].Open
        /\ df[i].High > df[i - 1].High
        /\ df[i].Low > df[i - 1].Low
        /\ df[i].Close > df[i - 1].Close

\* whether f is the range of row i below its own high, in percent
IsRangeOf(df, i, f) == f.n * df[i].High = 100 * (df[i].Low - df[i].High) * f.d
AtMostRangeOf(df, i, f) == f.n * df[i].High <= 100 * (df[i].Low - df[i].High) * f.d

\* C14 as stated: a non-empty window whose prices strictly increase from row
\* to row has a maximum drawdown of exactly 0.
C14_IncreasingGivesZeroMdd ==
    (Analyzed /\ StrictlyIncreasing(Window)) => Res.MDD = Zero

\* C14 amended: over a non-empty window whose prices strictly increase from
\* row to row the maximum drawdown is the widest range of a single row below
\* its own high, (low - high) / high in percent: 0 exactly when every row is
\* flat (low = high), negative otherwise.
C14_IncreasingMddIsWidestRange ==
    (Analyzed /\ StrictlyIncreasing(Window)) =>
        LET df == Window
            mdd == Res.MDD
        IN  /\ \E i \in 1..Len(df) : IsRangeOf(df, i, mdd)
            /\ \A i \in 1..Len(df) : AtMostRangeOf(df, i, mdd)
            /\ mdd = Zero <=> AllRowsFlat(df)
            /\ mdd # Zero => mdd.n < 0

C14_Witness ==
    /\ Analyzed
    /\ Len(Window) = 2
    /\ StrictlyIncreasing(Window)
    /\ Window[1].Low = Window[1].High
    /\ Window[2].Low < Window[2].High
    /\ Res.MDD.n < 0

\* two flat rows, the second above the first: the drawdown is 0
C14_WitnessFlat ==
    /\ Analyzed
    /\ Len(Window) = 2
    /\ StrictlyIncreasing(Window)
    /\ AllRowsFlat(Window)
    /\ Res.MDD = Zero

-----------------------------------------------------------------------------
(* The report artifact *)

SomeSectorResult == results # <<>> \/ theme_results # <<>>
NoArtifactWithoutResults ==
    (pc = "no_data" \/ (pc = "done" /\ ~SomeSectorResult)) => report_file = None

\* C16: a run whose analysis yields a sector result, standard or thematic,
\* generates its report without error and writes it, also when there is no
\* standard sector result or when a sector result has no constituent; a run
\* whose download failed or that has no sector result writes nothing.
C16_ReportWrittenIffResults ==
    /\ (pc = "done" /\ SomeSectorResult) => (raised = "" /\ report_file # None)
    /\ NoArtifactWithoutResults

====
